---- MODULE Spec2Model ----
(***************************************************************************)
(* EDDN Relay (src/src/eddn/Relay.py) and Monitor (src/src/eddn/Monitor.py) *)
(* as state machines.                                                      *)
(*                                                                         *)
(* JSON values are records: [str |-> s] a string, [num |-> n] a number,    *)
(* [members |-> <<k, v>> pairs] an object as TEXT (member order as         *)
(* written), [obj |-> f] an object as a PARSED dict, [bad |-> s] text      *)
(* that is not JSON.  A SHA-1 hex digest is the string [sha1hex |-> p]     *)
(* with p the hashed byte string (SHA-1 is taken to be collision free).    *)
(* A wire frame is a sequence of byte chunks: [z |-> text] the zlib stream *)
(* of text, [raw |-> s] other bytes, [sep |-> TRUE] the bytes " |-| ".     *)
(***************************************************************************)
EXTENDS Integers, Sequences, FiniteSets, TLC

VARIABLES
    clock,                    \* the last value time.time() returned, in seconds
                              \* since the process started
    dupMaxMinutes,            \* Settings.RELAY_DUPLICATE_MAX_MINUTES
    uploader_nonce,           \* Relay.uploader_nonce
    uploader_nonce_timestamp, \* Relay.uploader_nonce_timestamp
    uuids,                    \* number of uuid.uuid4() values drawn so far
    caches,                   \* duplicate_messages: fingerprint -> first_seen
    stats,                    \* stats_collector: counter name -> count
    workers,                  \* relay_worker greenlets, in spawn order
    published,                \* frames handed to sender.send, in order: .frame the
                              \* bytes, .by the worker that sent it, .decoded the
                              \* envelope a subscriber inflates and parses from it
    subs,                     \* sender (PUB): the pipe of each connected subscriber
    httpResponse,             \* last body returned by GET /stats/
    httpExchange,             \* last HTTP request with the status of its response
    mworkers,                 \* monitor_worker greenlets, in spawn order
    schemas,                  \* table `schemas`:   <<name, dateStats>> -> hits
    softwares,                \* table `softwares`: <<name, dateStats>> -> hits
    dbOpen                    \* monitor workers whose db connection is open

vars == <<clock, dupMaxMinutes, uploader_nonce, uploader_nonce_timestamp, uuids,
          caches, stats, workers, published, subs, httpResponse,
          httpExchange, mworkers, schemas, softwares, dbOpen>>

relayVars == <<dupMaxMinutes, uploader_nonce, uploader_nonce_timestamp, uuids,
               caches, stats, workers, published, subs, httpResponse,
               httpExchange>>

monitorVars == <<mworkers, schemas, softwares, dbOpen>>

---------------------------------------------------------------------------
\* Bounds of the model.

MaxFrames == 2      \* frames received per run
MaxTakes == 2       \* frames the I/O thread writes to one subscriber per run

\* Program constants.

REGENERATE_UPLOADER_NONCE_INTERVAL == 12 * 60 * 60
DefaultDuplicateMaxMinutes == 15

---------------------------------------------------------------------------
\* JSON values

Str(s) == [str |-> s]
Num(n) == [num |-> n]
None == [none |-> TRUE]

IsStr(v) == "str" \in DOMAIN v \/ "sha1hex" \in DOMAIN v
IsDict(v) == "obj" \in DOMAIN v
HasKey(v, k) == IsDict(v) /\ k \in DOMAIN v.obj

\* Keys in the order sort_keys=True puts them (code point order).
SortedKeys == <<"$schemaRef", "commodity", "gatewayTimestamp", "header", "message",
                "softwareName", "softwareVersion", "uploaderID", "uploaderIP">>

KeysOf(members) == {members[i][1] : i \in 1..Len(members)}

\* The value a parsed object has for key k: a repeated key keeps its last value.
LastValue(members, k) ==
    LET idx == {i \in 1..Len(members) : members[i][1] = k}
        last == CHOOSE i \in idx : \A j \in idx : j <= i
    IN members[last][2]

\* simplejson.loads on well-formed text.
RECURSIVE Parse(_)
Parse(text) ==
    IF "members" \in DOMAIN text
    THEN [obj |-> [k \in KeysOf(text.members) |-> Parse(LastValue(text.members, k))]]
    ELSE text

RECURSIVE WellFormed(_)
WellFormed(text) ==
    /\ "bad" \notin DOMAIN text
    /\ "members" \in DOMAIN text =>
          \A i \in 1..Len(text.members) : WellFormed(text.members[i][2])

\* simplejson.loads: the parsed value, or None when it raises JSONDecodeError.
loads(text) == IF WellFormed(text) THEN Parse(text) ELSE None

\* simplejson.dumps(json, sort_keys=True)
RECURSIVE dumps(_)
dumps(v) ==
    IF IsDict(v)
    THEN LET keys == SelectSeq(SortedKeys, LAMBDA k : k \in DOMAIN v.obj)
         IN [members |-> [i \in 1..Len(keys) |-> <<keys[i], dumps(v.obj[keys[i]])>>]]
    ELSE v

Sep == [sep |-> TRUE]

\* A zlib stream of text whose bytes contain the bytes " |-| ".
StreamWithSep(text) == <<[zhead |-> text], Sep, [ztail |-> text]>>

\* zlib.compress / zlib.decompress (None when it raises zlib.error).
compress(text) == <<[z |-> text]>>
decompress(bytes) ==
    IF Len(bytes) = 1 /\ "z" \in DOMAIN bytes[1] THEN bytes[1].z
    ELSE IF Len(bytes) = 3 /\ "zhead" \in DOMAIN bytes[1]
               /\ bytes = StreamWithSep(bytes[1].zhead) THEN bytes[1].zhead
    ELSE None

---------------------------------------------------------------------------
\* Envelopes and frames the internal bus may deliver.

SchemaCommodity == Str("https://eddn.edcd.io/schemas/commodity/3")
Payload == [members |-> << <<"commodity", Str("gold")>> >>]

\* Header text, members in the order the uploader and the Gateway wrote them.
HeaderText(id, ts, ip) ==
    [members |->
        << <<"softwareName", Str("EDMC")>>, <<"softwareVersion", Str("5.0.0")>> >>
        \o (IF id = None THEN <<>> ELSE << <<"uploaderID", id>> >>)
        \o (IF ts = None THEN <<>> ELSE << <<"gatewayTimestamp", ts>> >>)
        \o (IF ip = None THEN <<>> ELSE << <<"uploaderIP", ip>> >>)]

EnvelopeText(header) ==
    [members |-> << <<"header", header>>, <<"message", Payload>>,
                    <<"$schemaRef", SchemaCommodity>> >>]

\* A pseudonym written by an upstream Relay (Relays may be chained).
UpstreamPseudonym ==
    [sha1hex |-> <<[repr |-> [uuid |-> 0]], [lit |-> "-"], [encodeMethodAt |-> "0x55aa"]>>]

EnvJameson == EnvelopeText(HeaderText(Str("Cmdr-Jameson"), Str("T1"), Str("10.0.0.1")))
\* same residual content as EnvJameson: only the transient fields differ
EnvJamesonAgain == EnvelopeText(HeaderText(Str("Cmdr-Jameson"), Str("T2"), Str("10.0.0.2")))
EnvAnonymous == EnvelopeText(HeaderText(None, Str("T1"), None))
EnvNumericID == EnvelopeText(HeaderText(Num(7), Str("T1"), Str("10.0.0.1")))
\* another uploader, whose frame comes through an upstream Relay
EnvChained == EnvelopeText(HeaderText(UpstreamPseudonym, Str("T1"), None))
EnvNoHeader ==
    [members |-> << <<"message", Payload>>, <<"$schemaRef", SchemaCommodity>> >>]

Envelopes == {EnvJameson, EnvJamesonAgain, EnvAnonymous, EnvNumericID,
              EnvChained, EnvNoHeader}

\* <topic> |-| <compressed bytes>
Prefixed(topic, text) == <<[raw |-> topic.str], Sep>> \o compress(text)

\* The frames the internal bus may deliver, by name.
Wire ==
    [jameson      |-> compress(EnvJameson),
     jamesonAgain |-> compress(EnvJamesonAgain),
     anonymous    |-> compress(EnvAnonymous),
     numericID    |-> compress(EnvNumericID),
     chained      |-> compress(EnvChained),
     noHeader     |-> compress(EnvNoHeader),
     prefixed     |-> Prefixed(SchemaCommodity, EnvJameson),
     notJson      |-> compress([bad |-> "not json"]),
     notZlib      |-> <<[raw |-> "not zlib"]>>]

Frames == DOMAIN Wire

---------------------------------------------------------------------------
\* eddn.core.StatsCollector

tally(counters, name) == [counters EXCEPT ![name] = @ + 1]

\* the counts; the rates derived from them are left out
get_summary(counters) == [k \in DOMAIN counters |-> Num(counters[k])]

\* eddn.core.DuplicateMessages

TransientFields == {"gatewayTimestamp", "uploaderIP"}

Residual(json) ==
    IF HasKey(json, "header") /\ IsDict(json.obj.header)
    THEN [obj |-> [json.obj EXCEPT !.header =
             [obj |-> [k \in DOMAIN json.obj.header.obj \ TransientFields |->
                          json.obj.header.obj[k]]]]]
    ELSE json

Fingerprint(json) == [sha1 |-> dumps(Residual(json))]

Live(cache, now, minutes) == {e \in cache : now - e.first_seen <= minutes * 60}

\* .found: whether json was seen within the window; .caches: the cache afterwards
is_duplicated(cache, json, now, minutes) ==
    LET live == Live(cache, now, minutes)
        fp == Fingerprint(json)
    IN IF \E e \in live : e.fp = fp
       THEN [found |-> TRUE, caches |-> live]
       ELSE [found |-> FALSE, caches |-> live \cup {[fp |-> fp, first_seen |-> now]}]

---------------------------------------------------------------------------
\* class Relay

\* The Relay object's nonce state after generate_uploader_nonce(), run at time now.
generate_uploader_nonce(now) ==
    [nonce |-> [uuid |-> uuids + 1], timestamp |-> now, uuids |-> uuids + 1]

\* hashlib.sha1(f"{self.uploader_nonce!r}-{uploader.encode}".encode('utf8')).hexdigest()
\* uploader.encode is the bound method: it formats as
\* "<built-in method encode of str object at 0x...>", the address of the str object.
ScrambledText(nonce, uploader, addr) ==
    <<[repr |-> nonce], [lit |-> "-"], [encodeMethodAt |-> addr]>>

\* C2 mutant of scramble_uploader: the uploader is returned as it came.
scramble_uploader_unhashed(uploader, addr, now) ==
    [state |-> [nonce |-> uploader_nonce, timestamp |-> uploader_nonce_timestamp,
                uuids |-> uuids],
     result |-> IF IsStr(uploader) THEN uploader ELSE None]

\* C16 mutant of scramble_uploader: the nonce is rotated from an age of 12 hours on.
scramble_uploader_eager(uploader, addr, now) ==
    LET st == IF now - uploader_nonce_timestamp >= REGENERATE_UPLOADER_NONCE_INTERVAL
              THEN generate_uploader_nonce(now)
              ELSE [nonce |-> uploader_nonce, timestamp |-> uploader_nonce_timestamp,
                    uuids |-> uuids]
    IN [state |-> st,
        result |-> IF IsStr(uploader)
                   THEN [sha1hex |-> ScrambledText(st.nonce, uploader, addr)]
                   ELSE None]

\* now is what time.time() returns, addr the address of the str object uploader.
\* .state: the nonce state afterwards; .result: the value returned, None when
\* uploader has no attribute encode (AttributeError), raised after the rotation.
scramble_uploader(uploader, addr, now) ==
    LET st == IF now - uploader_nonce_timestamp > REGENERATE_UPLOADER_NONCE_INTERVAL
              THEN generate_uploader_nonce(now)
              ELSE [nonce |-> uploader_nonce, timestamp |-> uploader_nonce_timestamp,
                    uuids |-> uuids]
    IN [state |-> st,
        result |-> IF IsStr(uploader)
                   THEN [sha1hex |-> ScrambledText(st.nonce, uploader, addr)]
                   ELSE None]

\* Positions of a relay_worker greenlet.  Greenlets are cooperative: a worker runs
\* from its start to its first blocking call, sender.send, without a switch.
\*   "start" (105), "send" (131), "tally" (132), "done" (returned after the tally),
\*   "duplicate" (returned at 113), "failed" (an exception ended the greenlet).
\* inbound names the frame received (its bytes are Wire[inbound]); message is the
\* recompressed frame of line 128, None before.  checkedAt, nonce and addr record
\* what happened to the frame; the code does not read them.
NewWorker(frame) ==
    [pc |-> "start", inbound |-> frame, message |-> None,
     checkedAt |-> -1, nonce |-> None, addr |-> ""]

\* Addresses the allocator may give the decoded uploaderID str object.
Addrs == {"0x7f0a", "0x7f0b"}

\* The instants time.time() may return: the start, twelve hours after the start
\* (longer than the duplicate window), and a second after that.
Instants == {0, REGENERATE_UPLOADER_NONCE_INTERVAL, REGENERATE_UPLOADER_NONCE_INTERVAL + 1}

RelayInit ==
    /\ clock = 0
    /\ dupMaxMinutes \in {0, DefaultDuplicateMaxMinutes}
    /\ uploader_nonce = [uuid |-> 1]
    /\ uploader_nonce_timestamp = 0
    /\ uuids = 1
    /\ caches = {}
    /\ stats = [inbound |-> 0, outbound |-> 0, duplicate |-> 0]
    /\ workers = <<>>
    /\ published = <<>>
    /\ httpResponse = None
    /\ httpExchange = None

MonitorIdle ==
    /\ mworkers = <<>>
    /\ schemas = <<>>
    /\ softwares = <<>>
    /\ dbOpen = {}

\* No subscriber is connected to the sender.
Unsubscribed == subs = <<>>

Init == RelayInit /\ Unsubscribed /\ MonitorIdle

\* C8 mutant of Recv: the frame is handed to a worker without the inbound tally.
RecvUntallied(frame) ==
    /\ Len(workers) < MaxFrames
    /\ workers' = Append(workers, NewWorker(frame))
    /\ UNCHANGED <<clock, dupMaxMinutes, uploader_nonce, uploader_nonce_timestamp,
                   uuids, caches, stats, published, httpResponse, httpExchange,
                   subs, monitorVars>>

\* Relay.run, the receive loop: recv, tally, spawn
Recv(frame) ==
    /\ Len(workers) < MaxFrames
    /\ stats' = tally(stats, "inbound")
    /\ workers' = Append(workers, NewWorker(frame))
    /\ UNCHANGED <<clock, dupMaxMinutes, uploader_nonce, uploader_nonce_timestamp,
                   uuids, caches, published, httpResponse, httpExchange,
                   subs, monitorVars>>

\* C1 mutant of Sanitized: the uploaderIP is left in the header.
SanitizedKeepsIP(header, pseudonym) ==
    IF "uploaderID" \in DOMAIN header
    THEN [header EXCEPT !.uploaderID = pseudonym] ELSE header

\* C7 mutant of Sanitized: every transient field is stripped, as for the fingerprint.
SanitizedStripsTransient(header, pseudonym) ==
    LET scrambled == IF "uploaderID" \in DOMAIN header
                     THEN [header EXCEPT !.uploaderID = pseudonym] ELSE header
    IN [k \in DOMAIN scrambled \ TransientFields |-> scrambled[k]]

\* json['header'] with uploaderID scrambled (117-118) and uploaderIP deleted (121-122)
Sanitized(header, pseudonym) ==
    LET scrambled == IF "uploaderID" \in DOMAIN header
                     THEN [header EXCEPT !.uploaderID = pseudonym] ELSE header
    IN [k \in DOMAIN scrambled \ {"uploaderIP"} |-> scrambled[k]]

\* 'uploaderID' in json['header'] and json['header']['uploaderID'] = ... can be
\* evaluated: json is a dict with a dict under 'header' (KeyError, TypeError if not).
HeaderUsable(json) == HasKey(json, "header") /\ IsDict(json.obj.header)

\* message_text = zlib.decompress(message); json = simplejson.loads(message_text)
Decoded(message) ==
    LET text == decompress(message) IN IF text = None THEN None ELSE loads(text)

\* C3 mutant of DuplicateCheck: the answer of the cache is ignored.
DuplicateCheckIgnored(json, now) ==
    IF json # None /\ dupMaxMinutes # 0
    THEN [found |-> FALSE,
          caches |-> is_duplicated(caches, json, now, dupMaxMinutes).caches]
    ELSE [found |-> FALSE, caches |-> caches]

\* C14 mutant of DuplicateCheck: the cache is consulted whatever the setting.
DuplicateCheckUnguarded(json, now) ==
    IF json # None
    THEN is_duplicated(caches, json, now, dupMaxMinutes)
    ELSE [found |-> FALSE, caches |-> caches]

\* lines 109-110: the duplicate cache is consulted only when the setting is non-zero
DuplicateCheck(json, now) ==
    IF json # None /\ dupMaxMinutes # 0
    THEN is_duplicated(caches, json, now, dupMaxMinutes)
    ELSE [found |-> FALSE, caches |-> caches]

\* Decoded, tabulated over the frames the bus may deliver.
DecodedWire == [f \in Frames |-> Decoded(Wire[f])]

\* relay_worker, lines 105-128: decode, consult the duplicate cache, scramble the
\* uploader, strip the IP, dumps, compress.  addr is id() of the uploaderID str,
\* now the time the worker reads, no earlier than the last time read.
W_Process(w, addr, now) ==
    /\ workers[w].pc = "start"
    /\ now >= clock
    /\ clock' = now
    /\ LET json == DecodedWire[workers[w].inbound]
           dup == DuplicateCheck(json, now)
           scrambling == json # None /\ ~dup.found
           has == scrambling /\ HeaderUsable(json)
                     /\ "uploaderID" \in DOMAIN json.obj.header.obj
           s == IF has THEN scramble_uploader(json.obj.header.obj.uploaderID, addr, now)
                ELSE [state |-> [nonce |-> uploader_nonce,
                                 timestamp |-> uploader_nonce_timestamp,
                                 uuids |-> uuids],
                      result |-> None]
           ok == scrambling /\ HeaderUsable(json) /\ (has => s.result # None)
           out == [obj |-> [json.obj EXCEPT !.header =
                                [obj |-> Sanitized(json.obj.header.obj, s.result)]]]
       IN /\ addr = (IF has THEN addr ELSE "0x7f0a")
          /\ caches' = dup.caches
          /\ stats' = IF dup.found THEN tally(stats, "duplicate") ELSE stats
          /\ uploader_nonce' = s.state.nonce
          /\ uploader_nonce_timestamp' = s.state.timestamp
          /\ uuids' = s.state.uuids
          /\ workers' =
                IF json = None THEN [workers EXCEPT ![w].pc = "failed"]
                ELSE IF dup.found
                THEN [workers EXCEPT ![w].checkedAt = now,
                                     ![w].pc = "duplicate"]
                ELSE IF ~ok
                THEN [workers EXCEPT ![w].checkedAt = IF dupMaxMinutes # 0 THEN now ELSE -1,
                                     ![w].pc = "failed"]
                ELSE [workers EXCEPT ![w].message = compress(dumps(out)),
                                     ![w].checkedAt = IF dupMaxMinutes # 0 THEN now ELSE -1,
                                     ![w].nonce = IF has THEN s.state.nonce ELSE None,
                                     ![w].addr = IF has THEN addr ELSE "",
                                     ![w].pc = "send"]
    /\ UNCHANGED <<dupMaxMinutes, published, httpResponse, httpExchange,
                   subs, monitorVars>>

\* sender.setsockopt(zmq.SNDHWM, 500)
SNDHWM == 500

\* Frames in a subscriber's pipe that the sender has not yet written to the
\* subscriber's connection: .backlog frames sent before the run starts, then
\* .queue, the published frames (by index in published) in the order sent.
Occupancy(pipe) == pipe.backlog + Len(pipe.queue)

\* A PUB socket never blocks in send: it offers the frame to every subscriber's
\* pipe, and a pipe that has reached the high water mark drops the frame offered
\* (zmq_socket(3), ZMQ_PUB: "any messages that would be sent to the subscriber in
\* question shall instead be dropped").  .dropped records the frame with the
\* pipe's occupancy when it was offered.
Offer(pipe, i) ==
    IF Occupancy(pipe) < SNDHWM
    THEN [pipe EXCEPT !.queue = Append(@, i)]
    ELSE [pipe EXCEPT !.dropped = @ \cup {[frame |-> i, occupancy |-> Occupancy(pipe)]}]

\* C13 mutant of W_Send: one high water mark for the socket, so a frame that one
\* subscriber's full pipe refuses is dropped for every subscriber.
W_SendSharedMark(w) ==
    /\ workers[w].pc = "send"
    /\ published' = Append(published, [by |-> w, frame |-> workers[w].message,
                                       decoded |-> Decoded(workers[w].message)])
    /\ subs' = IF \E s \in DOMAIN subs : Occupancy(subs[s]) >= SNDHWM
               THEN [s \in DOMAIN subs |->
                        [subs[s] EXCEPT !.dropped = @ \cup
                            {[frame |-> Len(published) + 1,
                              occupancy |-> Occupancy(subs[s])]}]]
               ELSE [s \in DOMAIN subs |-> Offer(subs[s], Len(published) + 1)]
    /\ workers' = [workers EXCEPT ![w].pc = "tally"]
    /\ UNCHANGED <<clock, dupMaxMinutes, uploader_nonce, uploader_nonce_timestamp,
                   uuids, caches, stats, httpResponse, httpExchange,
                   monitorVars>>

\* C20 mutant of W_Send: frames are sent in the order received, a worker waiting
\* for the workers of the frames before its own.
W_SendInOrder(w) ==
    /\ workers[w].pc = "send"
    /\ \A v \in 1..(w - 1) : workers[v].pc \in {"tally", "done", "duplicate"}
    /\ published' = Append(published, [by |-> w, frame |-> workers[w].message,
                                       decoded |-> Decoded(workers[w].message)])
    /\ subs' = [s \in DOMAIN subs |-> Offer(subs[s], Len(published) + 1)]
    /\ workers' = [workers EXCEPT ![w].pc = "tally"]
    /\ UNCHANGED <<clock, dupMaxMinutes, uploader_nonce, uploader_nonce_timestamp,
                   uuids, caches, stats, httpResponse, httpExchange,
                   monitorVars>>

\* sender.send(message)
W_Send(w) ==
    /\ workers[w].pc = "send"
    /\ published' = Append(published, [by |-> w, frame |-> workers[w].message,
                                       decoded |-> Decoded(workers[w].message)])
    /\ subs' = [s \in DOMAIN subs |-> Offer(subs[s], Len(published) + 1)]
    /\ workers' = [workers EXCEPT ![w].pc = "tally"]
    /\ UNCHANGED <<clock, dupMaxMinutes, uploader_nonce, uploader_nonce_timestamp,
                   uuids, caches, stats, httpResponse, httpExchange,
                   monitorVars>>

\* C21 mutant of W_Tally: the outbound tally is made twice.
W_TallyTwice(w) ==
    /\ workers[w].pc = "tally"
    /\ stats' = tally(tally(stats, "outbound"), "outbound")
    /\ workers' = [workers EXCEPT ![w].pc = "done"]
    /\ UNCHANGED <<clock, dupMaxMinutes, uploader_nonce, uploader_nonce_timestamp,
                   uuids, caches, published, httpResponse, httpExchange,
                   subs, monitorVars>>

\* stats_collector.tally("outbound")
W_Tally(w) ==
    /\ workers[w].pc = "tally"
    /\ stats' = tally(stats, "outbound")
    /\ workers' = [workers EXCEPT ![w].pc = "done"]
    /\ UNCHANGED <<clock, dupMaxMinutes, uploader_nonce, uploader_nonce_timestamp,
                   uuids, caches, published, httpResponse, httpExchange,
                   subs, monitorVars>>

EDDN_VERSION == Str("version")

\* C9 mutant of HttpStats: the summary also reports the Relay's nonce.
HttpStatsWithNonce ==
    /\ httpResponse' = [obj |-> get_summary(stats) @@
                                [version |-> EDDN_VERSION, nonce |-> uploader_nonce]]
    /\ httpExchange' = [method |-> "GET", path |-> "/stats/", status |-> 200]
    /\ UNCHANGED <<clock, dupMaxMinutes, uploader_nonce, uploader_nonce_timestamp,
                   uuids, caches, stats, workers, published, subs, monitorVars>>

\* GET /stats/
HttpStats ==
    /\ httpResponse' = [obj |-> get_summary(stats) @@ [version |-> EDDN_VERSION]]
    /\ httpExchange' = [method |-> "GET", path |-> "/stats/", status |-> 200]
    /\ UNCHANGED <<clock, dupMaxMinutes, uploader_nonce, uploader_nonce_timestamp,
                   uuids, caches, stats, workers, published, subs, monitorVars>>

Next ==
    \/ \E f \in Frames : Recv(f)
    \/ \E w \in 1..Len(workers), a \in Addrs, t \in Instants : W_Process(w, a, t)
    \/ \E w \in 1..Len(workers) : W_Send(w)
    \/ \E w \in 1..Len(workers) : W_Tally(w)

\* The Relay thread.
Spec == Init /\ [][Next]_vars

\* Frames for the runs with the HTTP server: one published, one a duplicate of it,
\* one that fails.
HttpFrames == {"jameson", "jamesonAgain", "notZlib"}

\* The Relay thread and the bottle app serving GET /stats/.
HttpNext ==
    \/ \E f \in HttpFrames : Recv(f)
    \/ \E w \in 1..Len(workers), a \in Addrs, t \in Instants : W_Process(w, a, t)
    \/ \E w \in 1..Len(workers) : W_Send(w)
    \/ \E w \in 1..Len(workers) : W_Tally(w)
    \/ HttpStats

HttpSpec == Init /\ [][HttpNext]_vars

---------------------------------------------------------------------------
\* The Relay thread with the gevent hub's scheduling.

\* Frames for the runs under fairness: one published, a duplicate of it, and the
\* three kinds that fail.  The workers all read the same time and get the same
\* address.
FairFrames == {"jameson", "jamesonAgain", "notZlib", "notJson", "noHeader"}

FairNext ==
    \/ \E f \in FairFrames : Recv(f)
    \/ \E w \in 1..Len(workers) : W_Process(w, "0x7f0a", 0)
    \/ \E w \in 1..Len(workers) : W_Send(w)
    \/ \E w \in 1..Len(workers) : W_Tally(w)

\* A spawned greenlet is run by the hub whenever the running one blocks (the
\* receive loop does in receiver.recv()), and a greenlet blocked in sender.send
\* is resumed: no step of a worker stays enabled for ever without being taken.
FairSpec ==
    /\ Init /\ [][FairNext]_vars
    /\ \A w \in 1..MaxFrames :
          /\ WF_vars(w <= Len(workers) /\ W_Process(w, "0x7f0a", 0))
          /\ WF_vars(w <= Len(workers) /\ W_Send(w))
          /\ WF_vars(w <= Len(workers) /\ W_Tally(w))

---------------------------------------------------------------------------
\* The bottle app.

\* @app.route('/stats/', method=['OPTIONS', 'GET']): the only route of the app.
Routes == {[method |-> "OPTIONS", path |-> "/stats/"],
           [method |-> "GET", path |-> "/stats/"]}

\* Requests a client may make.
Methods == {"GET", "POST", "OPTIONS"}
Paths == {"/stats/", "/ping", "/upload/", "/"}

\* bottle's router: the handler of the route that matches path and method; 405
\* when only the path matches a route, 404 when no route has the path.
HttpRequest(method, path) ==
    LET matched == [method |-> method, path |-> path] \in Routes
        known == \E route \in Routes : route.path = path
    IN /\ httpExchange' = [method |-> method, path |-> path,
                           status |-> IF matched THEN 200
                                      ELSE IF known THEN 405 ELSE 404]
       /\ httpResponse' = IF matched
                          THEN [obj |-> get_summary(stats) @@ [version |-> EDDN_VERSION]]
                          ELSE httpResponse
       /\ UNCHANGED <<clock, dupMaxMinutes, uploader_nonce, uploader_nonce_timestamp,
                      uuids, caches, stats, workers, published, subs, monitorVars>>

\* The Relay thread and the bottle app serving any request.
RouteNext ==
    \/ \E f \in HttpFrames : Recv(f)
    \/ \E w \in 1..Len(workers) : W_Process(w, "0x7f0a", 0)
    \/ \E w \in 1..Len(workers) : W_Send(w)
    \/ \E w \in 1..Len(workers) : W_Tally(w)
    \/ \E method \in Methods, path \in Paths : HttpRequest(method, path)

RouteSpec == Init /\ [][RouteNext]_vars

---------------------------------------------------------------------------
\* The sender with subscribers connected.

\* What a subscriber's pipe may hold when the run starts: nothing, one frame less
\* than the high water mark, the high water mark.
Backlogs == {0, SNDHWM - 1, SNDHWM}

Subscribers == {"a", "b"}

Subscribed ==
    subs \in [Subscribers -> {[backlog |-> b, queue |-> <<>>, got |-> <<>>,
                               dropped |-> {}, takes |-> 0] : b \in Backlogs}]

PubInit == RelayInit /\ Subscribed /\ MonitorIdle

\* The I/O thread writes the oldest frame of subscriber s's pipe to s's connection.
Deliver(s) ==
    /\ Occupancy(subs[s]) > 0
    /\ subs[s].takes < MaxTakes
    /\ subs' = [subs EXCEPT ![s] =
          IF @.backlog > 0
          THEN [@ EXCEPT !.backlog = @ - 1, !.takes = @ + 1]
          ELSE [@ EXCEPT !.queue = Tail(@), !.got = Append(@, Head(subs[s].queue)),
                         !.takes = @ + 1]]
    /\ UNCHANGED <<clock, dupMaxMinutes, uploader_nonce, uploader_nonce_timestamp,
                   uuids, caches, stats, workers, published, httpResponse, httpExchange,
                   monitorVars>>

\* Frames for the runs with subscribers: two that are published.  The workers
\* of these runs all read the same time and get the same address.
PubFrames == {"jameson", "anonymous"}

PubNext ==
    \/ \E f \in PubFrames : Recv(f)
    \/ \E w \in 1..Len(workers) : W_Process(w, "0x7f0a", 0)
    \/ \E w \in 1..Len(workers) : W_Send(w)
    \/ \E w \in 1..Len(workers) : W_Tally(w)
    \/ \E s \in Subscribers : Deliver(s)

\* The Relay thread and the sender's I/O thread.
PubSpec == PubInit /\ [][PubNext]_vars

---------------------------------------------------------------------------
\* class Monitor

\* str.encode('utf8'): None when the value has no attribute encode (AttributeError).
encode(v) == IF v # None /\ IsStr(v) THEN [bytes |-> <<v>>] ELSE None

IsBytes(v) == "bytes" \in DOMAIN v

\* a + b on str and bytes operands: None when it raises TypeError (bytes + str).
Plus(a, b) ==
    IF a = None \/ b = None THEN None
    ELSE IF IsBytes(a) /\ IsBytes(b) THEN [bytes |-> a.bytes \o b.bytes]
    ELSE IF IsStr(a) /\ IsStr(b) THEN [strcat |-> <<a, b>>]
    ELSE None

\* json[k1][k2], None when it raises KeyError or TypeError
Item2(json, k1, k2) ==
    IF HasKey(json, k1) /\ HasKey(json.obj[k1], k2) THEN json.obj[k1].obj[k2] ELSE None

\* lines 207-208:
\* json['header']['softwareName'].encode('utf8') + ' | '
\*     + json['header']['softwareVersion'].encode('utf8')
software_id(json) ==
    Plus(Plus(encode(Item2(json, "header", "softwareName")), Str(" | ")),
         encode(Item2(json, "header", "softwareVersion")))

\* line 206: json['$schemaRef'], None when it raises KeyError
schema_id(json) == IF HasKey(json, "$schemaRef") THEN json.obj["$schemaRef"] ELSE None

\* bytes.split(b' |-| ')
RECURSIVE Split(_)
Split(bytes) ==
    LET seps == {i \in 1..Len(bytes) : bytes[i] = Sep}
    IN IF seps = {} THEN <<bytes>>
       ELSE LET i == CHOOSE k \in seps : \A j \in seps : k <= j
            IN <<SubSeq(bytes, 1, i - 1)>> \o Split(SubSeq(bytes, i + 1, Len(bytes)))

\* lines 194-200: the part of the frame that is inflated
Payload_of(message) ==
    LET message_split == Split(message)
    IN IF Len(message_split) > 1 THEN message_split[2] ELSE message_split[1]

\* The frames the Monitor's bus may deliver: those of the Relay's, and the
\* envelope of EnvAnonymous in a zlib stream that contains the separator, bare
\* and prefixed.
MonitorWire ==
    Wire @@
    [sepInside         |-> StreamWithSep(EnvAnonymous),
     prefixedSepInside |-> <<[raw |-> SchemaCommodity.str], Sep>>
                              \o StreamWithSep(EnvAnonymous)]

MonitorFrames == DOMAIN MonitorWire

\* lines 194-200, tabulated: the bytes the worker inflates at line 202
MonitorInflated == [f \in MonitorFrames |-> Payload_of(MonitorWire[f])]

\* lines 194-208, tabulated over the frames the bus may deliver: what the worker
\* holds on reaching line 210, or None when an exception ended it before.
MonitorParsed ==
    [f \in MonitorFrames |->
        LET json == Decoded(MonitorInflated[f])
        IN IF json = None \/ schema_id(json) = None \/ software_id(json) = None
           THEN None
           ELSE [json |-> json, schema_id |-> schema_id(json),
                 software_id |-> software_id(json)]]

\* UTC_DATE(), in days since the process started
UtcDate == clock \div (24 * 60 * 60)

Hits(table, name) == IF <<name, UtcDate>> \in DOMAIN table THEN table[<<name, UtcDate>>] ELSE 0

\* Positions of a monitor_worker greenlet: "connect" (187), "parse" (194),
\* "classify" (211), "failed" (an exception ended the greenlet).  inbound names
\* the frame received, message is the part of it found at lines 194-200.
\* Monitor.run, the receive loop: recv, spawn
M_Recv(frame) ==
    /\ Len(mworkers) < MaxFrames
    /\ mworkers' = Append(mworkers, [pc |-> "connect", inbound |-> frame,
                                     message |-> None])
    /\ UNCHANGED <<clock, relayVars, schemas, softwares, dbOpen>>

\* db = mariadb.connect(...)
M_Connect(w) ==
    /\ mworkers[w].pc = "connect"
    /\ dbOpen' = dbOpen \cup {w}
    /\ mworkers' = [mworkers EXCEPT ![w].pc = "parse"]
    /\ UNCHANGED <<clock, relayVars, schemas, softwares>>

\* lines 194-208: split, inflate, parse, schema_id, software_id
M_Parse(w) ==
    /\ mworkers[w].pc = "parse"
    /\ mworkers' = [mworkers EXCEPT
          ![w].message = MonitorInflated[mworkers[w].inbound],
          ![w].pc = IF MonitorParsed[mworkers[w].inbound] = None
                    THEN "failed" ELSE "classify"]
    /\ UNCHANGED <<clock, relayVars, schemas, softwares, dbOpen>>

\* Lines 210-254 (the duplicate check and the UPDATE / INSERT IGNORE statements) are
\* never reached: no worker gets past line 207, see C10_NoWorkerPastLine207.
MonitorNext ==
    \/ \E f \in MonitorFrames : M_Recv(f)
    \/ \E w \in 1..Len(mworkers) : M_Connect(w)
    \/ \E w \in 1..Len(mworkers) : M_Parse(w)

\* The Monitor thread.
MonitorSpec == Init /\ [][MonitorNext]_vars

---------------------------------------------------------------------------
\* What the claims speak of.

\* The envelope a subscriber decodes from the i-th published frame.
Pub(i) == published[i].decoded

\* The envelope the worker of the i-th published frame decoded from its inbound frame.
Rcv(i) == DecodedWire[workers[published[i].by].inbound]

PubHeader(i) == Pub(i).obj.header.obj
RcvHeader(i) == Rcv(i).obj.header.obj

IsHex40(v) == "sha1hex" \in DOMAIN v

Window == dupMaxMinutes * 60

Distance(a, b) == IF a < b THEN b - a ELSE a - b

WorkersAt(pcs) == {w \in 1..Len(workers) : workers[w].pc \in pcs}

PublishedBy(w) == {i \in 1..Len(published) : published[i].by = w}

Nonces == {[uuid |-> k] : k \in 1..uuids}

RECURSIVE ContainsNonce(_)
ContainsNonce(v) ==
    IF IsDict(v) THEN \E k \in DOMAIN v.obj : ContainsNonce(v.obj[k])
    ELSE v \in Nonces

\* Fingerprint of the envelope a frame carries, tabulated (None: no envelope).
FingerprintWire ==
    [f \in Frames |-> IF DecodedWire[f] = None THEN None ELSE Fingerprint(DecodedWire[f])]

RcvFingerprint(i) == FingerprintWire[workers[published[i].by].inbound]

\* C1: every envelope published on the public bus is a JSON object whose header
\* has no uploaderIP key.
C1_NoUploaderIP ==
    \A i \in 1..Len(published) :
        LET pub == Pub(i)
        IN /\ HeaderUsable(pub)
           /\ "uploaderIP" \notin DOMAIN pub.obj.header.obj

C1_Witness ==
    \E i \in 1..Len(published) : "uploaderIP" \in DOMAIN RcvHeader(i)

\* C2: a published envelope has header.uploaderID iff the received one had it, and
\* then it is a 40-hex digest different from the ID received.
C2_PseudonymPresence ==
    \A i \in 1..Len(published) :
        LET ph == PubHeader(i)
            rh == RcvHeader(i)
        IN /\ "uploaderID" \in DOMAIN ph <=> "uploaderID" \in DOMAIN rh
           /\ "uploaderID" \in DOMAIN ph =>
                 /\ IsHex40(ph.uploaderID)
                 /\ ph.uploaderID # rh.uploaderID

C2_Witness ==
    \E i, j \in 1..Len(published) :
        /\ "uploaderID" \in DOMAIN RcvHeader(i) /\ IsHex40(RcvHeader(i).uploaderID)
        /\ "uploaderID" \notin DOMAIN RcvHeader(j)

Pseudonyms ==
    {[id |-> RcvHeader(i).uploaderID, nonce |-> workers[published[i].by].nonce,
      pseudonym |-> PubHeader(i).uploaderID] :
        i \in {k \in 1..Len(published) : "uploaderID" \in DOMAIN RcvHeader(k)}}

\* C4: two published frames with the same received uploaderID carry equal
\* pseudonyms when scrambled under the same nonce, and different pseudonyms when
\* scrambled under different nonces.
C4_StableWithinNonceWindow ==
    \A p, q \in Pseudonyms :
        p.id = q.id => (p.nonce = q.nonce <=> p.pseudonym = q.pseudonym)

\* C5: the pseudonym is a function of exactly (nonce, uploaderID value): under one
\* nonce, equal IDs get equal pseudonyms and different IDs different pseudonyms.
C5_FunctionOfNonceAndID ==
    \A p, q \in Pseudonyms :
        p.nonce = q.nonce => (p.id = q.id <=> p.pseudonym = q.pseudonym)

\* C6: every published frame is <schema ID> |-| <compressed bytes>, the schema ID
\* being the envelope's $schemaRef.
C6_TopicPrefix ==
    \A i \in 1..Len(published) :
        LET frame == published[i].frame
        IN /\ Len(frame) >= 3
           /\ frame[1] = [raw |-> Rcv(i).obj["$schemaRef"].str]
           /\ frame[2] = Sep

\* C7: the published envelope has the keys of the received one with the same
\* values, and its header has the keys of the received header less uploaderIP, with
\* the same values except under uploaderID.
C7_OnlyUploaderFieldsChange ==
    \A i \in 1..Len(published) :
        LET pub == Pub(i).obj
            rcv == Rcv(i).obj
        IN /\ DOMAIN pub = DOMAIN rcv
           /\ \A k \in DOMAIN rcv \ {"header"} : pub[k] = rcv[k]
           /\ DOMAIN pub.header.obj = DOMAIN rcv.header.obj \ {"uploaderIP"}
           /\ \A k \in DOMAIN pub.header.obj \ {"uploaderID"} :
                 pub.header.obj[k] = rcv.header.obj[k]

C7_Witness ==
    \E i \in 1..Len(published) :
        {"uploaderID", "uploaderIP", "gatewayTimestamp"} \subseteq DOMAIN RcvHeader(i)

\* C8: inbound >= outbound + duplicate in every state.
C8_InboundCoversOutcomes ==
    stats.inbound >= stats.outbound + stats.duplicate

C8_Witness ==
    /\ stats.outbound >= 1
    /\ stats.duplicate >= 1
    /\ stats.inbound = stats.outbound + stats.duplicate

\* C9: no published envelope and no /stats/ response contains a nonce the Relay
\* has drawn; apart from the digest under header.uploaderID, a published envelope
\* is the received one less uploaderIP, whatever the nonce.
C9_NonceNeverEmitted ==
    /\ \A i \in 1..Len(published) :
          LET pub == Pub(i)
              ph == pub.obj.header.obj
              rh == RcvHeader(i)
          IN /\ ~ContainsNonce(pub)
             /\ [k \in DOMAIN ph \ {"uploaderID"} |-> ph[k]]
                  = [k \in DOMAIN rh \ {"uploaderID", "uploaderIP"} |-> rh[k]]
    /\ httpResponse # None => ~ContainsNonce(httpResponse)

C9_Witness ==
    /\ httpResponse # None
    /\ httpResponse.obj.outbound = Num(1)
    /\ uuids > 1
    /\ \E i \in 1..Len(published) :
          "uploaderID" \in DOMAIN PubHeader(i)
             /\ workers[published[i].by].nonce = [uuid |-> uuids]

\* Monitor workers that have ended, by return or by exception.
M_Ended == {w \in 1..Len(mworkers) : mworkers[w].pc \in {"done", "failed"}}

\* The envelope a frame carries when the frame is a zlib stream, tabulated.
MonitorEnvelope == [f \in MonitorFrames |-> Decoded(MonitorWire[f])]

M_Envelope(w) == MonitorEnvelope[mworkers[w].inbound]

\* The frame is a well-formed envelope: $schemaRef and the two software fields.
M_Countable(w) ==
    /\ M_Envelope(w) # None
    /\ schema_id(M_Envelope(w)) # None
    /\ Item2(M_Envelope(w), "header", "softwareName") # None
    /\ Item2(M_Envelope(w), "header", "softwareVersion") # None

\* No other frame received has the same residual content: the frame is no duplicate.
M_Unique(w) ==
    \A v \in 1..Len(mworkers) :
        (v # w /\ M_Envelope(v) # None) =>
            Fingerprint(M_Envelope(v)) # Fingerprint(M_Envelope(w))

M_SoftwareKey(w) ==
    <<Item2(M_Envelope(w), "header", "softwareName"),
      Item2(M_Envelope(w), "header", "softwareVersion")>>

\* C10: once the workers of n well-formed, non-duplicate frames with one key have
\* ended, the schemas row and the softwares row of that key have hits = n.
C10_HitsCountFrames ==
    \A w \in M_Ended :
        (M_Countable(w) /\ \A v \in M_Ended : M_Unique(v)) =>
            /\ Hits(schemas, schema_id(M_Envelope(w))) =
                  Cardinality({v \in M_Ended : M_Countable(v) /\
                                  schema_id(M_Envelope(v)) = schema_id(M_Envelope(w))})
            /\ Hits(softwares, M_SoftwareKey(w)) =
                  Cardinality({v \in M_Ended : M_Countable(v) /\
                                  M_SoftwareKey(v) = M_SoftwareKey(w)})

\* Every monitor worker ends at or before line 207: none reaches the database code.
C10_NoWorkerPastLine207 ==
    \A w \in 1..Len(mworkers) : mworkers[w].pc \in {"connect", "parse", "failed"}

\* C11: once the workers of the well-formed frames have ended, duplicates among
\* them or not, the softwares row of a frame's softwareName|softwareVersion has
\* one hit for every such frame with that key.
C11_SoftwaresCountEveryFrame ==
    \A w \in M_Ended :
        M_Countable(w) =>
            Hits(softwares, M_SoftwareKey(w)) =
                Cardinality({v \in M_Ended : M_Countable(v) /\
                                M_SoftwareKey(v) = M_SoftwareKey(w)})

DUPLICATE_MESSAGE == Str("DUPLICATE MESSAGE")

\* The hits of all rows of a table.
RECURSIVE SumHits(_, _)
SumHits(table, keys) ==
    IF keys = {} THEN 0
    ELSE LET k == CHOOSE x \in keys : TRUE
         IN table[k] + SumHits(table, keys \ {k})

\* C12: every well-formed frame whose worker has ended is counted under exactly one
\* schemas key, its $schemaRef or DUPLICATE MESSAGE: the schemas rows are of those
\* keys only and their hits add up to the number of such frames.
C12_ExactlyOneSchemaKey ==
    /\ \A row \in DOMAIN schemas :
          \/ row[1] = DUPLICATE_MESSAGE
          \/ \E w \in M_Ended : M_Countable(w) /\ row[1] = schema_id(M_Envelope(w))
    /\ SumHits(schemas, DOMAIN schemas) =
          Cardinality({w \in M_Ended : M_Countable(w)})

Range(seq) == {seq[i] : i \in 1..Len(seq)}

Increasing(seq) == \A i, j \in 1..Len(seq) : i < j => seq[i] < seq[j]

DroppedFrames(pipe) == {d.frame : d \in pipe.dropped}

WellFormedFrames ==
    {f \in Frames :
        /\ Len(Wire[f]) = 1 /\ "z" \in DOMAIN Wire[f][1]
        /\ LET json == loads(Wire[f][1].z)
           IN /\ json # None
              /\ HeaderUsable(json)
              /\ "uploaderID" \in DOMAIN json.obj.header.obj =>
                    IsStr(json.obj.header.obj.uploaderID)}

C14_MonitorNeverCountsDuplicate ==
    dupMaxMinutes = 0 => \A row \in DOMAIN schemas : row[1] # DUPLICATE_MESSAGE

\* C15: GET /stats/ and GET /ping are answered (200), and no POST is.
C15_HttpSurface ==
    httpExchange # None =>
        /\ (httpExchange.method = "GET" /\ httpExchange.path \in {"/stats/", "/ping"})
              => httpExchange.status = 200
        /\ httpExchange.method = "POST" => httpExchange.status # 200

\* No route accepts an upload: every POST is refused.
C15_NoUploadRoute ==
    (httpExchange # None /\ httpExchange.method = "POST") =>
        httpExchange.status \in {404, 405}

\* The worker that runs scramble_uploader in this step, if any: it leaves "start"
\* and its envelope has an uploaderID.
Scrambling(w) ==
    /\ w <= Len(workers)
    /\ workers[w].pc = "start" /\ workers'[w].pc \in {"send", "failed"}
    /\ LET json == DecodedWire[workers[w].inbound]
       IN json # None /\ HeaderUsable(json)
             /\ "uploaderID" \in DOMAIN json.obj.header.obj

C16_Step ==
    /\ uploader_nonce' # uploader_nonce =>
          /\ \E w \in 1..MaxFrames : Scrambling(w)
          /\ clock' - uploader_nonce_timestamp > REGENERATE_UPLOADER_NONCE_INTERVAL
          /\ uploader_nonce_timestamp' = clock'
    /\ uploader_nonce' = uploader_nonce =>
          uploader_nonce_timestamp' = uploader_nonce_timestamp
    /\ \A w \in 1..MaxFrames :
          (Scrambling(w) /\ workers'[w].pc = "send") =>
              /\ workers'[w].nonce = uploader_nonce'
              /\ clock' - uploader_nonce_timestamp' <= REGENERATE_UPLOADER_NONCE_INTERVAL

\* C16: the nonce changes only in a step that runs scramble_uploader, and only
\* when the time read exceeds the nonce's timestamp by more than 12 hours; the
\* timestamp then becomes the time read and otherwise stays; the nonce a worker
\* hashes with is the current one and is at most 12 hours old.
C16_LazyRotation == [][C16_Step]_vars

\* One worker scrambled at an age of exactly 12 hours under the first nonce, and
\* a later one under the second.
C16_Witness ==
    \E v, w \in 1..Len(workers) :
        /\ workers[v].checkedAt = REGENERATE_UPLOADER_NONCE_INTERVAL
        /\ workers[v].nonce = [uuid |-> 1]
        /\ workers[w].nonce = [uuid |-> 2]
        /\ workers[w].pc = "done"

\* C17: the worker of the frame <topic> |-| <compressed bytes> decodes the envelope
\* that the worker of <compressed bytes> decodes, and it does not fail: the frame
\* is relayed, or found to be a duplicate.
C17_PrefixedFrameRelayed ==
    \A w \in 1..Len(workers) :
        (workers[w].inbound = "prefixed" /\ workers[w].pc # "start") =>
            /\ Decoded(Wire.prefixed) = Decoded(Wire.jameson)
            /\ workers[w].pc \in {"send", "tally", "done", "duplicate"}

\* The frames built as <topic> |-| c, and the compressed bytes c of every frame.
PrefixedFrames == {"prefixed", "prefixedSepInside"}

CompressedPart ==
    [f \in MonitorFrames |->
        IF f \in PrefixedFrames
        THEN SubSeq(MonitorWire[f], 3, Len(MonitorWire[f]))
        ELSE MonitorWire[f]]

\* C18: a monitor worker that has split its frame inflates exactly the compressed
\* bytes c, the frame being c or <topic> |-| c, also when c contains " |-| ".
C18_InflatesCompressedPart ==
    \A w \in 1..Len(mworkers) :
        mworkers[w].pc \notin {"connect", "parse"} =>
            mworkers[w].message = CompressedPart[mworkers[w].inbound]

\* The split finds c when c does not contain the separator.
C18_HoldsWithoutSepInside ==
    \A w \in 1..Len(mworkers) :
        (mworkers[w].pc \notin {"connect", "parse"}
            /\ Sep \notin Range(CompressedPart[mworkers[w].inbound])) =>
            mworkers[w].message = CompressedPart[mworkers[w].inbound]

\* The workers, all ended, of well-formed frames that are no duplicates of one
\* another and share the $schemaRef of worker w.
M_SameSchema(w) ==
    {v \in M_Ended : M_Countable(v) /\ M_Unique(v) /\
                     schema_id(M_Envelope(v)) = schema_id(M_Envelope(w))}

\* C19: when k >= 2 workers, run in any interleaving, have ended on frames with
\* the same key, the schemas row and the softwares row of that key have at least k
\* hits: no increment is lost.
C19_NoLostIncrement ==
    \A w \in M_Ended :
        (M_Countable(w) /\ M_Unique(w) /\ Cardinality(M_SameSchema(w)) >= 2) =>
            /\ Hits(schemas, schema_id(M_Envelope(w))) >= Cardinality(M_SameSchema(w))
            /\ Hits(softwares, M_SoftwareKey(w)) >= Cardinality(M_SameSchema(w))

\* The worker of frame w sent the frame, or found it to be a duplicate.
Settled(w) ==
    w <= Len(workers) /\ (PublishedBy(w) # {} \/ workers[w].pc = "duplicate")

C21_OneOutcomePerFrame ==
    /\ stats.inbound = Len(workers)
    /\ \A w \in 1..Len(workers) :
          Cardinality(PublishedBy(w)) =
              IF workers[w].pc \in {"tally", "done"} THEN 1 ELSE 0
    /\ stats.duplicate = Cardinality(WorkersAt({"duplicate"}))
    /\ stats.outbound = Cardinality(WorkersAt({"done"}))
    /\ stats.outbound <= Len(published)
    /\ WorkersAt({"tally"}) = {} => stats.outbound = Len(published)

\* One frame was found a duplicate of a frame that is sent and not yet tallied.
C21_Witness ==
    /\ stats.duplicate = 1
    /\ WorkersAt({"tally"}) # {}
    /\ stats.outbound < Len(published)

\* C22: a monitor worker that has ended, by return or by exception, has closed the
\* database connection it opened.
C22_ConnectionClosed ==
    \A w \in M_Ended : w \notin dbOpen

====
